---- MODULE Spec2Model ----
(***************************************************************************)
(* Model of the usable-excel task pane:                                    *)
(*   - the tool-call deduplication layer of lib/excel-tools.ts             *)
(*     (handleExcelToolCall and its inFlightCalls table), driven by the    *)
(*     onToolCall callbacks of hooks/use-chat-embed.ts;                    *)
(*   - the useAuth hook (session state, persisted refresh token, silent    *)
(*     refresh timer, login dialog).                                       *)
(* The two parts share no state, so each has its own specification         *)
(* (SpecTools, SpecAuth); SpecDelay drives scheduleRefresh alone over a    *)
(* wide range of lifetimes.                                                *)
(*                                                                         *)
(* Execution model: one JavaScript event loop.  An action is one task      *)
(* (message event, timer, settled network or Office call) together with    *)
(* the microtasks it triggers, which run to completion before the next     *)
(* task.  The functions useAuth returns (login, logout,                    *)
(* refreshAccessToken) can be called in any session state while the hook   *)
(* is mounted; React drops state updates of an unmounted component, while  *)
(* refs, timers and localStorage stay reachable from pending callbacks.    *)
(* Definitions named after a source definition with a suffix               *)
(* (ExistingNever, OnSettledKeep, ...) are faulty variants of it, used to  *)
(* show that a property depends on the code it is about.                   *)
(***************************************************************************)
EXTENDS Integers, Sequences, FiniteSets, TLC

\* ------------------------------------------------------------------------
\* Bounds of the model
\* ------------------------------------------------------------------------

\* Number of handleExcelToolCall deliveries in one run.
MaxCalls == 3

\* Largest number of rows of a values array handed to write_range.
MaxRows == 23

\* Largest number of columns of a values array handed to write_range.
MaxCols == 2

\* ------------------------------------------------------------------------
\* Generic helpers
\* ------------------------------------------------------------------------

\* null / undefined of the source where the value is otherwise a string.
NULL == "null"

Max(a, b) == IF a >= b THEN a ELSE b

\* JavaScript Map operations on a TLA+ function whose domain is the key set.
EmptyMap == [k \in {} |-> 0]

MapGet(m, k) == IF k \in DOMAIN m THEN m[k] ELSE 0

MapSet(m, k, v) == [x \in (DOMAIN m) \cup {k} |-> IF x = k THEN v ELSE m[x]]

MapDelete(m, k) == [x \in (DOMAIN m) \ {k} |-> m[x]]

\* ========================================================================
\* PART 1 - lib/excel-tools.ts : handleExcelToolCall
\* ========================================================================

VARIABLES
  inFlightCalls,  \* Map<string, Promise>: key -> id of the stored promise
  promises,       \* handler executions, in start order: [key, status, value]
  calls           \* handleExcelToolCall invocations, in delivery order

toolVars == <<inFlightCalls, promises, calls>>

\* State of useAuth (PART 2).
VARIABLES
  phase,            \* "created" (rendered, effects not run), "mounted", "unmounted"
  state,            \* useState<AuthState>
  accessToken,      \* useState<string | null>
  storedRT,         \* localStorage[RT_KEY]
  refreshTimerRef,  \* refreshTimerRef.current (0: null)
  timers,           \* timers set by setTimeout that are neither fired nor cleared
  nextTimerId,      \* the handle the next setTimeout returns
  exchanges,        \* refreshAccessToken invocations awaiting exchangeRefreshToken
  dialogRef,        \* dialogRef.current (0: null)
  dialogOpen,       \* the Office dialog exists and its handlers are attached
  timerLog,         \* history: [firedSuperseded: a timer fired after a later
                    \*   scheduleRefresh, cancelledLive: a scheduleRefresh
                    \*   cleared a timer that was still live]
  lastOp            \* history: the operation that produced this state: [op,
                    \*   origin, resp: the tokens a successful exchange or
                    \*   login returned, afterTeardown: logout() or the
                    \*   unmount cleanup has run and no login has succeeded
                    \*   since, staleDialog: the open dialog was opened
                    \*   before the last logout() or unmount]

authVars == <<phase, state, accessToken, storedRT, refreshTimerRef, timers,
              nextTimerId, exchanges, dialogRef, dialogOpen, timerLog,
              lastOp>>

\* --- the embed instance held by useChatEmbed ---
VARIABLES
  embedRef,         \* embedRef.current: 0 (null) or 1 (the instance)
  embedReady,       \* the instance has observed READY
  accessTokenRef,   \* accessTokenRef.current: the token of the last render
  lastSent,         \* messages the last step of the hook posted, in order
  embedLog          \* history: [early: types posted to an instance before
                    \*   its READY, pushed: token of the last SET_AUTH posted
                    \*   to the instance after its READY, mountToken: the
                    \*   accessToken of the render that created the instance]

embedVars == <<embedRef, embedReady, accessTokenRef, lastSent, embedLog>>

\* --- one run of the write_range handler ---
VARIABLES
  writePc,          \* position of the handler: "idle", "loop" (inside
                    \*   Excel.run, before a loop iteration or the return),
                    \*   "done" (resolved), "failed" (rejected)
  values,           \* args.values: the rows, each a sequence of cells
  topLeft,          \* the top-left cell taken from args.address
  rowChunks,        \* chunk(values, 10)
  nextChunk,        \* 1-based index of the batch the for...of loop takes next
  startRow,         \* the handler's startRow
  synced,           \* history: the range writes context.sync() has applied,
                    \*   in order
  writeResult       \* what the handler resolved with

writeVars == <<writePc, values, topLeft, rowChunks, nextChunk, startRow,
               synced, writeResult>>

vars == <<toolVars, authVars, embedVars, writeVars>>

\* The message listeners that can be attached at once for one embed
\* (the double-listener condition described above inFlightCalls).
Listeners == {1, 2}

\* Names in handlerMap (two of the registered tools stand for all of them).
handlerMap == {"add_chart", "read_range"}

\* Tool names the embed may send: the registered ones and an unknown one.
ToolNames == handlerMap \cup {"no_such_tool"}

\* Argument objects, as the ordered list of their own properties.
ArgsValues ==
  { << <<"dataAddress", "A1:B2">>, <<"sheet", "S1">> >>,
    << <<"sheet", "S1">>, <<"dataAddress", "A1:B2">> >> }

\* JSON.stringify of an args object: properties in their own order.
RECURSIVE JSONstringifyProps(_)
JSONstringifyProps(props) ==
  IF props = << >> THEN << >>
  ELSE LET p == Head(props)
           rest == Tail(props)
       IN <<"\"", p[1], "\"", ":", "\"", p[2], "\"">>
            \o (IF rest = << >> THEN << >> ELSE <<",">>)
            \o JSONstringifyProps(rest)

\* Variant: the properties are written in one fixed order of their names.
JSONstringifyCanonical(args) ==
  LET names == <<"dataAddress", "sheet">>
      sorted == [i \in 1..Len(args) |->
                  CHOOSE j \in 1..Len(args) : args[j][1] = names[i]]
  IN <<"{">> \o JSONstringifyProps([i \in 1..Len(args) |-> args[sorted[i]]])
       \o <<"}">>

JSONstringify(args) == <<"{">> \o JSONstringifyProps(args) \o <<"}">>

\* const key = `${toolName}:${JSON.stringify(args)}`
CallKey(toolName, args) == <<toolName, ":">> \o JSONstringify(args)

\* What a handler can settle with: a result or an error.
HandlerOutcomes ==
  { [kind |-> "result", value |-> "r1"],
    [kind |-> "result", value |-> "r2"],
    [kind |-> "error",  value |-> "e1"] }

\* Executions of the handler for `key` that have started and not settled.
PendingFor(key) ==
  { p \in 1..Len(promises) :
      promises[p].key = key /\ promises[p].status = "pending" }

\* Variant: the lookup never finds an entry.
ExistingNever(key) == 0

\* const existing = inFlightCalls.get(key)   (0: undefined)
Existing(key) == MapGet(inFlightCalls, key)

\* Variant: only the fulfil callback deletes the key.
OnSettledKeepOnError(key, kind) ==
  IF kind = "error" THEN inFlightCalls ELSE MapDelete(inFlightCalls, key)

\* Variant: the key is never deleted.
OnSettledKeep(key, kind) == inFlightCalls

\* The table after the settle callbacks of the stored promise have run:
\* both the fulfil and the reject callback delete the key.
OnSettled(key, kind) == MapDelete(inFlightCalls, key)

\* The outcome a settled promise hands to whoever awaits it.
PromiseOutcome(p) ==
  [ kind  |-> IF promises[p].status = "fulfilled" THEN "result" ELSE "error",
    value |-> promises[p].value ]

NoOutcome == [kind |-> "none", value |-> NULL]

\* A call record.  promise: the promise returned to the caller (0: the call
\* threw before any promise was looked up); status/outcome: what the caller
\* (onToolCall) has got back so far.  The last three fields are history
\* taken at delivery time, independent of the table:
\*   racing        - the execution for this key that was pending (0: none),
\*   fresh         - this call started a handler execution,
\*   joinedSettled - the promise returned had already settled.
CallRec(l, toolName, args, p, racing, fresh, joinedSettled, outcome) ==
  [ listener |-> l, tool |-> toolName, args |-> args, promise |-> p,
    racing |-> racing, fresh |-> fresh, joinedSettled |-> joinedSettled,
    status |-> IF outcome = NoOutcome THEN "pending" ELSE "responded",
    outcome |-> outcome ]

\* Variant: every tool name is taken to have a handler.
HasHandlerAny(toolName) == TRUE

\* const handler = handlerMap.get(toolName); if (!handler) throw ...
HasHandler(toolName) == toolName \in handlerMap

RacingAt(key) ==
  IF PendingFor(key) = {} THEN 0 ELSE CHOOSE p \in PendingFor(key) :
       \A q \in PendingFor(key) : p <= q

\* handleExcelToolCall(toolName, args), called by listener l's onToolCall.
\* A promise that is already settled when it is returned resumes the caller
\* in the same microtask run, before any other event is handled.
handleExcelToolCall(l, toolName, args) ==
  LET key      == CallKey(toolName, args)
      existing == Existing(key)
      newId    == Len(promises) + 1
  IN
  /\ Len(calls) < MaxCalls
  /\ IF ~HasHandler(toolName)
       THEN \* throw new Error(`Unknown Excel tool: "${toolName}"`)
            /\ calls' = Append(calls,
                 CallRec(l, toolName, args, 0, 0, FALSE, FALSE,
                         [kind |-> "unknownTool", value |-> toolName]))
            /\ UNCHANGED <<inFlightCalls, promises>>
       ELSE IF existing # 0
         THEN \* if (existing) return existing
              /\ calls' = Append(calls,
                   CallRec(l, toolName, args, existing, RacingAt(key), FALSE,
                           promises[existing].status # "pending",
                           IF promises[existing].status = "pending"
                             THEN NoOutcome ELSE PromiseOutcome(existing)))
              /\ UNCHANGED <<inFlightCalls, promises>>
         ELSE \* handler(args).then(...); inFlightCalls.set(key, promise)
              /\ promises' = Append(promises,
                   [key |-> key, status |-> "pending", value |-> NULL])
              /\ inFlightCalls' = MapSet(inFlightCalls, key, newId)
              /\ calls' = Append(calls,
                   CallRec(l, toolName, args, newId, RacingAt(key), TRUE,
                           FALSE, NoOutcome))

\* Variant: only the caller that started the execution is resumed.
ResumeStarterOnly(p, o) ==
  [c \in 1..Len(calls) |->
     IF calls[c].promise = p /\ calls[c].status = "pending" /\ calls[c].fresh
       THEN [calls[c] EXCEPT !.status = "responded", !.outcome = o]
       ELSE calls[c]]

\* Variant: the reject callback does not rethrow, so the stored promise
\* fulfils with undefined when the handler fails.
ResumeCallersErrorSwallowed(p, o) ==
  [c \in 1..Len(calls) |->
     IF calls[c].promise = p /\ calls[c].status = "pending"
       THEN [calls[c] EXCEPT
               !.status = "responded",
               !.outcome = IF o.kind = "error"
                           THEN [kind |-> "result", value |-> NULL] ELSE o]
       ELSE calls[c]]

\* The callers resumed when promise p settles with outcome o: every caller
\* that was returned p (the one that stored it and the ones that got it as
\* `existing`).
ResumeCallers(p, o) ==
  [c \in 1..Len(calls) |->
     IF calls[c].promise = p /\ calls[c].status = "pending"
       THEN [calls[c] EXCEPT !.status = "responded", !.outcome = o]
       ELSE calls[c]]

\* onToolCall of embed instance / listener l receives a TOOL_CALL.
ToolCall ==
  \E l \in Listeners, toolName \in ToolNames, args \in ArgsValues :
    /\ handleExcelToolCall(l, toolName, args)
    /\ UNCHANGED <<authVars, embedVars, writeVars>>

\* The handler's promise settles.  In the same microtask run the
\* then-callbacks delete the key and pass the result on (or rethrow the
\* error), and every caller holding the stored promise is resumed with it.
HandlerSettles ==
  \E p \in 1..Len(promises), o \in HandlerOutcomes :
    /\ promises[p].status = "pending"
    /\ promises' = [promises EXCEPT
         ![p].status = IF o.kind = "result" THEN "fulfilled" ELSE "rejected",
         ![p].value  = o.value]
    /\ inFlightCalls' = OnSettled(promises[p].key, o.kind)
    /\ calls' = ResumeCallers(p, o)
    /\ UNCHANGED <<authVars, embedVars, writeVars>>

\* ========================================================================
\* PART 2 - useAuth : session state, persisted refresh token, refresh timer
\* ========================================================================

\* Number of setTimeout calls in one run.
MaxTimers == 3

\* Number of token exchanges in flight at once.
MaxInFlight == 2

\* Lifetimes scheduleRefresh is driven with on its own: -NegLifetimes..MaxLifetime.
NegLifetimes == 40

MaxLifetime == 310

\* Math.max((expiresIn - 30) * 1000, 10_000)
MarginSeconds == 30

FloorMs == 10000

\* tokens.expires_in ?? 300, data.expiresIn ?? 300
DefaultExpiresIn == 300

AccessTokens == {"at-1", "at-2"}

RefreshTokens == {"rt-1", "rt-2"}

\* expires_in values the token endpoint and the dialog page return here.
AuthLifetimes == {5, 300}

\* An optional number: absent (undefined) or a value.
ExpiresOpts ==
  {[present |-> FALSE, value |-> 0]}
    \cup {[present |-> TRUE, value |-> L] : L \in AuthLifetimes}

\* x ?? 300
OrDefault(x) == IF x.present THEN x.value ELSE DefaultExpiresIn

\* Who called refreshAccessToken: the mount effect, the timer callback, or
\* the embed's onTokenRefreshRequired.
Origins == {"mount", "timer", "embed"}

ExchangeKinds == RefreshTokens \X Origins

InFlight == { k \in ExchangeKinds : exchanges[k] > 0 }

RECURSIVE SumOver(_, _)
SumOver(f, S) ==
  IF S = {} THEN 0
  ELSE LET k == CHOOSE x \in S : TRUE IN f[k] + SumOver(f, S \ {k})

InFlightCount == SumOver(exchanges, ExchangeKinds)

\* No token response (the operation was not a successful exchange).
NoResp ==
  [ sent |-> NULL, at |-> NULL, rt |-> NULL,
    ex |-> [present |-> FALSE, value |-> 0] ]

Op(name, origin) ==
  [ op |-> name, origin |-> origin, resp |-> NoResp,
    afterTeardown |->
      IF name \in {"logout", "unmount"} THEN TRUE
      ELSE IF name = "loginSucceeded" /\ phase = "mounted" THEN FALSE
      ELSE lastOp.afterTeardown,
    staleDialog |->
      IF name \in {"logout", "unmount"} THEN dialogOpen
      ELSE IF name \in {"loginSucceeded", "loginError", "loginDismissed"}
        THEN FALSE
      ELSE lastOp.staleDialog ]

OpResp(name, origin, resp) == [Op(name, origin) EXCEPT !.resp = resp]

\* setState / setAccessToken: React drops updates of an unmounted component.
SetState(new) == IF phase = "unmounted" THEN state ELSE new

SetAccessToken(new) == IF phase = "unmounted" THEN accessToken ELSE new

\* Variant: a floor of twice the length.
RefreshDelayFloor20(expiresIn) ==
  Max((expiresIn - MarginSeconds) * 1000, 2 * FloorMs)

\* Variant: no floor.
RefreshDelayNoFloor(expiresIn) == (expiresIn - MarginSeconds) * 1000

\* const delay = Math.max((expiresIn - 30) * 1000, 10_000)
RefreshDelay(expiresIn) == Max((expiresIn - MarginSeconds) * 1000, FloorMs)

\* clearTimeout(id): no effect when id is null or names no live timer.
ClearTimeout(id) == { t \in timers : t.id # id }

NewTimer(expiresIn) ==
  [ id |-> nextTimerId, delay |-> RefreshDelay(expiresIn),
    life |-> expiresIn, superseded |-> FALSE ]

Superseded(ts) == { [t EXCEPT !.superseded = TRUE] : t \in ts }

\* Variant: the previous timer is not cleared.
scheduleRefreshNoClear(expiresIn) ==
  [ timers |-> Superseded(timers) \cup {NewTimer(expiresIn)},
    ref    |-> nextTimerId,
    next   |-> nextTimerId + 1,
    cancelledLive |-> FALSE ]

\* scheduleRefresh(expiresIn, doRefresh): the timer state it leaves.  A timer
\* still live when a later one is armed is marked superseded (history).
scheduleRefresh(expiresIn) ==
  [ timers |-> Superseded(ClearTimeout(refreshTimerRef))
                 \cup {NewTimer(expiresIn)},
    ref    |-> nextTimerId,
    next   |-> nextTimerId + 1,
    cancelledLive |-> ClearTimeout(refreshTimerRef) # timers ]

Arm(r) ==
  /\ timers' = r.timers
  /\ refreshTimerRef' = r.ref
  /\ nextTimerId' = r.next
  /\ timerLog' = [timerLog EXCEPT
       !.cancelledLive = timerLog.cancelledLive \/ r.cancelledLive]

\* Variant: the mount effect ignores the result.
AfterRestoreIgnoresNull(token, st) == st

\* The mount effect's continuation: .then((token) => { if (!token)
\* setState("unauthenticated") }), applied to the state st left by
\* refreshAccessToken.
AfterRestore(token, st) ==
  IF token = NULL THEN SetState("unauthenticated") ELSE st

\* Variant: every caller reacts to a null result as the mount effect does.
AfterFailureAlwaysEject(origin) == SetState("unauthenticated")

\* Variant: the embed's onTokenRefreshRequired also ends the session on a
\* null result.
AfterFailureEjectsEmbed(origin) ==
  IF origin \in {"mount", "embed"} THEN SetState("unauthenticated") ELSE state

\* What a caller of refreshAccessToken does with a null result: only the
\* mount effect reacts.
AfterFailure(origin) ==
  IF origin = "mount" THEN AfterRestore(NULL, state) ELSE state

\* Variant: a call made while an exchange is awaited starts none of its own.
refreshAccessTokenDeduped(origin) ==
  IF storedRT = NULL
    THEN /\ state' = AfterFailure(origin)
         /\ lastOp' = Op("renewNoToken", origin)
         /\ UNCHANGED <<exchanges, accessToken, storedRT>>
    ELSE /\ InFlightCount < MaxInFlight
         /\ exchanges' = IF InFlightCount > 0 THEN exchanges
                         ELSE [exchanges EXCEPT ![<<storedRT, origin>>] = @ + 1]
         /\ lastOp' = Op("renewStarted", origin)
         /\ UNCHANGED <<state, accessToken, storedRT>>

\* refreshAccessToken() up to its first await, called by `origin`.
refreshAccessToken(origin) ==
  IF storedRT = NULL
    THEN \* if (!rt) return null
         /\ state' = AfterFailure(origin)
         /\ lastOp' = Op("renewNoToken", origin)
         /\ UNCHANGED <<exchanges, accessToken, storedRT>>
    ELSE /\ InFlightCount < MaxInFlight
         /\ exchanges' = [exchanges EXCEPT ![<<storedRT, origin>>] = @ + 1]
         /\ lastOp' = Op("renewStarted", origin)
         /\ UNCHANGED <<state, accessToken, storedRT>>

\* useEffect on mount: refreshAccessToken().then(...)
Mount ==
  /\ phase = "created"
  /\ phase' = "mounted"
  /\ refreshAccessToken("mount")
  /\ UNCHANGED <<toolVars, writeVars, embedVars,
                 refreshTimerRef, timers, nextTimerId, dialogRef, dialogOpen,
                 timerLog>>

\* Variant: without a rotated token the token that was sent is written
\* back (saveRefreshToken(result.refreshToken ?? rt)).
ExchangeSucceedsWritesBack ==
  \E k \in InFlight, at \in AccessTokens,
     rt \in RefreshTokens \cup {NULL}, ex \in ExpiresOpts :
    /\ nextTimerId <= MaxTimers
    /\ exchanges' = [exchanges EXCEPT ![k] = @ - 1]
    /\ accessToken' = SetAccessToken(at)
    /\ state' = (IF k[2] = "mount" THEN AfterRestore(at, SetState("authenticated"))
                 ELSE SetState("authenticated"))
    /\ storedRT' = (IF rt # NULL THEN rt ELSE k[1])
    /\ Arm(scheduleRefresh(OrDefault(ex)))
    /\ lastOp' = OpResp("renewed", k[2],
                       [sent |-> k[1], at |-> at, rt |-> rt, ex |-> ex])
    /\ UNCHANGED <<toolVars, writeVars, embedVars,
                 phase, dialogRef, dialogOpen>>

\* Variant: the rotated renewal token is not persisted.
ExchangeSucceedsKeepsToken ==
  \E k \in InFlight, at \in AccessTokens,
     rt \in RefreshTokens \cup {NULL}, ex \in ExpiresOpts :
    /\ nextTimerId <= MaxTimers
    /\ exchanges' = [exchanges EXCEPT ![k] = @ - 1]
    /\ accessToken' = SetAccessToken(at)
    /\ state' = (IF k[2] = "mount" THEN AfterRestore(at, SetState("authenticated"))
                 ELSE SetState("authenticated"))
    /\ storedRT' = storedRT
    /\ Arm(scheduleRefresh(OrDefault(ex)))
    /\ lastOp' = OpResp("renewed", k[2],
                       [sent |-> k[1], at |-> at, rt |-> rt, ex |-> ex])
    /\ UNCHANGED <<toolVars, writeVars, embedVars,
                 phase, dialogRef, dialogOpen>>

\* exchangeRefreshToken resolves with tokens: the rest of refreshAccessToken.
ExchangeSucceeds ==
  \E k \in InFlight, at \in AccessTokens,
     rt \in RefreshTokens \cup {NULL}, ex \in ExpiresOpts :
    /\ nextTimerId <= MaxTimers
    /\ exchanges' = [exchanges EXCEPT ![k] = @ - 1]
    /\ accessToken' = SetAccessToken(at)
    /\ state' = (IF k[2] = "mount" THEN AfterRestore(at, SetState("authenticated"))
                 ELSE SetState("authenticated"))
    /\ storedRT' = (IF rt # NULL THEN rt ELSE storedRT)
    /\ Arm(scheduleRefresh(OrDefault(ex)))
    /\ lastOp' = OpResp("renewed", k[2],
                       [sent |-> k[1], at |-> at, rt |-> rt, ex |-> ex])
    /\ UNCHANGED <<toolVars, writeVars, embedVars,
                 phase, dialogRef, dialogOpen>>

\* exchangeRefreshToken resolves with null (!res.ok): clearRefreshToken(),
\* return null.
ExchangeFails ==
  \E k \in InFlight :
    /\ exchanges' = [exchanges EXCEPT ![k] = @ - 1]
    /\ storedRT' = NULL
    /\ state' = AfterFailure(k[2])
    /\ lastOp' = Op("renewFailed", k[2])
    /\ UNCHANGED <<toolVars, writeVars, embedVars,
                 phase, accessToken, refreshTimerRef, timers, nextTimerId,
                   dialogRef, dialogOpen, timerLog>>

\* fetch (or res.json()) rejects: exchangeRefreshToken and refreshAccessToken
\* reject; nothing after the await runs and no caller handles the rejection.
ExchangeThrows ==
  \E k \in InFlight :
    /\ exchanges' = [exchanges EXCEPT ![k] = @ - 1]
    /\ lastOp' = Op("renewThrew", k[2])
    /\ UNCHANGED <<toolVars, writeVars, embedVars,
                 phase, state, accessToken, storedRT, refreshTimerRef,
                   timers, nextTimerId, dialogRef, dialogOpen,
                   timerLog>>

\* A live timer fires: () => { refreshAccessToken() }
TimerFires ==
  \E t \in timers :
    /\ timers' = timers \ {t}
    /\ timerLog' = [timerLog EXCEPT
         !.firedSuperseded = timerLog.firedSuperseded \/ t.superseded]
    /\ refreshAccessToken("timer")
    /\ UNCHANGED <<toolVars, writeVars, embedVars,
                 phase, refreshTimerRef, nextTimerId, dialogRef, dialogOpen>>

\* The embed sends TOKEN_REFRESH_REQUIRED: onTokenRefreshRequired is
\* refreshAccessToken.
EmbedRequestsRefresh ==
  /\ phase = "mounted"
  /\ refreshAccessToken("embed")
  /\ UNCHANGED <<toolVars, writeVars, embedVars,
                 phase, refreshTimerRef, timers, nextTimerId, dialogRef,
                 dialogOpen, timerLog>>

\* login(): displayDialogAsync and its callback.  Office shows one dialog at
\* a time, so a second call fails; the call can also fail on its own.
login ==
  /\ phase = "mounted"
  /\ \E ok \in BOOLEAN :
       IF ok /\ ~dialogOpen
         THEN /\ dialogOpen' = TRUE
              /\ dialogRef' = 1
              /\ lastOp' = Op("loginOpened", "user")
         ELSE /\ lastOp' = Op("loginOpenFailed", "user")
              /\ UNCHANGED <<dialogOpen, dialogRef>>
  /\ UNCHANGED <<toolVars, writeVars, embedVars,
                 phase, state, accessToken, storedRT, refreshTimerRef, timers,
                 nextTimerId, exchanges, timerLog>>

\* Variant: AUTH_SUCCESS handled without dialog.close() and without
\* clearing dialogRef.
DialogAuthSuccessKeepsDialog ==
  \E at \in AccessTokens, rt \in RefreshTokens \cup {NULL}, ex \in ExpiresOpts :
    /\ dialogOpen
    /\ nextTimerId <= MaxTimers
    /\ accessToken' = SetAccessToken(at)
    /\ state' = SetState("authenticated")
    /\ Arm(scheduleRefresh(OrDefault(ex)))
    /\ storedRT' = (IF rt # NULL THEN rt ELSE storedRT)
    /\ lastOp' = OpResp("loginSucceeded", "dialog",
                       [sent |-> NULL, at |-> at, rt |-> rt, ex |-> ex])
    /\ UNCHANGED <<toolVars, writeVars, embedVars,
                 phase, exchanges, dialogOpen, dialogRef>>

\* DialogMessageReceived with { type: "AUTH_SUCCESS", accessToken, ... }
DialogAuthSuccess ==
  \E at \in AccessTokens, rt \in RefreshTokens \cup {NULL}, ex \in ExpiresOpts :
    /\ dialogOpen
    /\ nextTimerId <= MaxTimers
    /\ dialogOpen' = FALSE
    /\ dialogRef' = 0
    /\ accessToken' = SetAccessToken(at)
    /\ state' = SetState("authenticated")
    /\ Arm(scheduleRefresh(OrDefault(ex)))
    /\ storedRT' = (IF rt # NULL THEN rt ELSE storedRT)
    /\ lastOp' = OpResp("loginSucceeded", "dialog",
                       [sent |-> NULL, at |-> at, rt |-> rt, ex |-> ex])
    /\ UNCHANGED <<toolVars, writeVars, embedVars,
                 phase, exchanges>>

\* Variant: AUTH_ERROR also ends the session.
DialogAuthErrorEjects ==
  /\ dialogOpen
  /\ dialogOpen' = FALSE
  /\ dialogRef' = 0
  /\ state' = SetState("unauthenticated")
  /\ lastOp' = Op("loginError", "dialog")
  /\ UNCHANGED <<toolVars, writeVars, embedVars,
                 phase, accessToken, storedRT, refreshTimerRef, timers,
                 nextTimerId, exchanges, timerLog>>

\* DialogMessageReceived with { type: "AUTH_ERROR", error }
DialogAuthError ==
  /\ dialogOpen
  /\ dialogOpen' = FALSE
  /\ dialogRef' = 0
  /\ lastOp' = Op("loginError", "dialog")
  /\ UNCHANGED <<toolVars, writeVars, embedVars,
                 phase, state, accessToken, storedRT, refreshTimerRef, timers,
                 nextTimerId, exchanges, timerLog>>

\* Any other dialog message: a dialog error event (no message), text that is
\* not JSON, an unknown type, or AUTH_SUCCESS without an accessToken.
IgnoredDialogMessages ==
  {"errorEvent", "notJson", "unknownType", "successWithoutToken"}

DialogNoise ==
  \E m \in IgnoredDialogMessages :
    /\ dialogOpen
    /\ lastOp' = Op("loginNoise", m)
    /\ UNCHANGED <<toolVars, writeVars, embedVars,
                 phase, state, accessToken, storedRT, refreshTimerRef,
                   timers, nextTimerId, exchanges, dialogRef, dialogOpen,
                   timerLog>>

\* DialogEventReceived: the user closed the dialog without completing.
DialogClosed ==
  /\ dialogOpen
  /\ dialogOpen' = FALSE
  /\ dialogRef' = 0
  /\ lastOp' = Op("loginDismissed", "dialog")
  /\ UNCHANGED <<toolVars, writeVars, embedVars,
                 phase, state, accessToken, storedRT, refreshTimerRef, timers,
                 nextTimerId, exchanges, timerLog>>

\* Variant: logout() without the clearTimeout.
logoutKeepsTimer ==
  /\ phase = "mounted"
  /\ storedRT' = NULL
  /\ accessToken' = SetAccessToken(NULL)
  /\ state' = SetState("unauthenticated")
  /\ lastOp' = Op("logout", "user")
  /\ UNCHANGED <<toolVars, writeVars, embedVars,
                 phase, timers, refreshTimerRef, nextTimerId, exchanges,
                 dialogRef, dialogOpen, timerLog>>

\* logout()
logout ==
  /\ phase = "mounted"
  /\ storedRT' = NULL
  /\ accessToken' = SetAccessToken(NULL)
  /\ state' = SetState("unauthenticated")
  /\ timers' = ClearTimeout(refreshTimerRef)
  /\ lastOp' = Op("logout", "user")
  /\ UNCHANGED <<toolVars, writeVars, embedVars,
                 phase, refreshTimerRef, nextTimerId, exchanges, dialogRef,
                 dialogOpen, timerLog>>

\* The effect's cleanup on unmount.
Unmount ==
  /\ phase = "mounted"
  /\ phase' = "unmounted"
  /\ timers' = ClearTimeout(refreshTimerRef)
  /\ lastOp' = Op("unmount", "react")
  /\ UNCHANGED <<toolVars, writeVars, embedVars,
                 state, accessToken, storedRT, refreshTimerRef, nextTimerId,
                 exchanges, dialogRef, dialogOpen, timerLog>>

\* useAuth after its first render, for a given content of localStorage.
AuthStart(rt) ==
  /\ phase = "created"
  /\ state = "restoring"
  /\ accessToken = NULL
  /\ storedRT = rt
  /\ refreshTimerRef = 0
  /\ timers = {}
  /\ nextTimerId = 1
  /\ exchanges = [k \in ExchangeKinds |-> 0]
  /\ dialogRef = 0
  /\ dialogOpen = FALSE
  /\ timerLog = [firedSuperseded |-> FALSE, cancelledLive |-> FALSE]
  /\ lastOp = [ op |-> "init", origin |-> "react", resp |-> NoResp,
                afterTeardown |-> FALSE, staleDialog |-> FALSE ]

\* scheduleRefresh on its own, for every lifetime of the range.
ScheduleRefreshCall ==
  \E L \in (0 - NegLifetimes)..MaxLifetime :
    /\ nextTimerId <= MaxTimers
    /\ Arm(scheduleRefresh(L))
    /\ lastOp' = Op("scheduleRefresh", "direct")
    /\ UNCHANGED <<toolVars, writeVars, embedVars,
                 phase, state, accessToken, storedRT, exchanges, dialogRef,
                   dialogOpen>>

\* ========================================================================
\* PART 3 - useChatEmbed : the embed instance, READY, REGISTER_TOOLS, SET_AUTH
\* ========================================================================
\* The embed SDK (UsableChatEmbed) posts a message the moment registerTools
\* or setAuth is called, runs the onReady callback when READY arrives, and
\* calls onTokenRefreshRequired on TOKEN_REFRESH_REQUIRED.  A state change of
\* useAuth re-renders the component before anything else happens, so every
\* other step waits for a pending render (RenderIdle).

\* export const excelToolSchemas = tools.map((t) => t.schema)
excelToolSchemas == handlerMap

\* embed.registerTools(schemas): the message it posts.
RegisterToolsMsg(schemas) ==
  [type |-> "REGISTER_TOOLS", token |-> NULL, tools |-> schemas]

\* embed.setAuth(token): the message it posts.
SetAuthMsg(token) == [type |-> "SET_AUTH", token |-> token, tools |-> {}]

SetAuthTokens(msgs) ==
  {msgs[i].token : i \in {j \in 1..Len(msgs) : msgs[j].type = "SET_AUTH"}}

\* The history after msgs were posted to an instance whose READY has
\* (ready) or has not been observed.
Posted(log, msgs, ready) ==
  [log EXCEPT
     !.early  = IF ready THEN @
                ELSE @ \cup {msgs[i].type : i \in 1..Len(msgs)},
     !.pushed = IF ready /\ SetAuthTokens(msgs) # {}
                THEN CHOOSE t \in SetAuthTokens(msgs) : TRUE
                ELSE @]

\* Variant: the onReady callback closes over the accessToken of the render
\* that created the instance instead of reading accessTokenRef.
OnReadyMessagesMountToken ==
  <<RegisterToolsMsg(excelToolSchemas)>>
    \o (IF embedLog.mountToken # NULL
        THEN <<SetAuthMsg(embedLog.mountToken)>>
        ELSE << >>)

\* embed.onReady(() => { embed.registerTools(excelToolSchemas);
\*   if (accessTokenRef.current) embed.setAuth(accessTokenRef.current) })
OnReadyMessages ==
  <<RegisterToolsMsg(excelToolSchemas)>>
    \o (IF accessTokenRef # NULL THEN <<SetAuthMsg(accessTokenRef)>>
        ELSE << >>)

\* Variant: the token effect reads the ref of the previous render.
TokenEffectMessagesStale(token, ref) ==
  IF token # NULL /\ ref # 0 THEN <<SetAuthMsg(accessTokenRef)>> ELSE << >>

\* useEffect(() => { if (accessToken && embedRef.current)
\*   embedRef.current.setAuth(accessToken) }, [accessToken])
TokenEffectMessages(token, ref) ==
  IF token # NULL /\ ref # 0 THEN <<SetAuthMsg(token)>> ELSE << >>

\* No render of useChatEmbed is pending.
RenderIdle == embedRef = 0 \/ accessToken = accessTokenRef

\* First render of useChatEmbed and its two effects: the ref takes the
\* token, the instance is created, the token effect runs.
EmbedMount ==
  /\ phase = "mounted"
  /\ embedRef = 0
  /\ accessTokenRef' = accessToken
  /\ embedRef' = 1
  /\ embedReady' = FALSE
  /\ lastSent' = TokenEffectMessages(accessToken, embedRef')
  /\ embedLog' = Posted([embedLog EXCEPT !.pushed = NULL, !.mountToken = accessToken],
                        lastSent', FALSE)
  /\ lastOp' = Op("embedMount", "react")
  /\ UNCHANGED <<toolVars, writeVars,
                 phase, state, accessToken, storedRT, refreshTimerRef, timers,
                 nextTimerId, exchanges, dialogRef, dialogOpen, timerLog>>

\* READY arrives: the instance runs the onReady callback.
EmbedReady ==
  /\ embedRef # 0
  /\ ~embedReady
  /\ RenderIdle
  /\ embedReady' = TRUE
  /\ lastSent' = OnReadyMessages
  /\ embedLog' = Posted(embedLog, lastSent', TRUE)
  /\ lastOp' = Op("embedReady", "embed")
  /\ UNCHANGED <<toolVars, writeVars, embedRef, accessTokenRef,
                 phase, state, accessToken, storedRT, refreshTimerRef, timers,
                 nextTimerId, exchanges, dialogRef, dialogOpen, timerLog>>

\* Re-render after accessToken changed: accessTokenRef.current = accessToken,
\* then the [accessToken] effect.  The history keeps the origin of the
\* operation that changed the token.
TokenEffect ==
  /\ embedRef # 0
  /\ accessToken # accessTokenRef
  /\ accessTokenRef' = accessToken
  /\ lastSent' = TokenEffectMessages(accessToken, embedRef)
  /\ embedLog' = Posted(embedLog, lastSent', embedReady)
  /\ lastOp' = Op("tokenEffect", lastOp.origin)
  /\ UNCHANGED <<toolVars, writeVars, embedRef, embedReady,
                 phase, state, accessToken, storedRT, refreshTimerRef, timers,
                 nextTimerId, exchanges, dialogRef, dialogOpen, timerLog>>

\* Cleanup of the first effect: embed.destroy(); embedRef.current = null
EmbedUnmount ==
  /\ embedRef # 0
  /\ RenderIdle
  /\ embedRef' = 0
  /\ embedReady' = FALSE
  /\ lastSent' = << >>
  /\ embedLog' = [embedLog EXCEPT !.pushed = NULL, !.mountToken = NULL]
  /\ lastOp' = Op("embedUnmount", "react")
  /\ UNCHANGED <<toolVars, writeVars, accessTokenRef,
                 phase, state, accessToken, storedRT, refreshTimerRef, timers,
                 nextTimerId, exchanges, dialogRef, dialogOpen, timerLog>>

\* TOKEN_REFRESH_REQUIRED arrives: onTokenRefreshRequired: refreshAccessToken
EmbedTokenRefreshRequired ==
  /\ embedRef # 0
  /\ embedReady
  /\ RenderIdle
  /\ EmbedRequestsRefresh

\* A step of useAuth, taken when no render is pending.  Renewals are the
\* restore on mount and those the embed asks for; the timer's renewals run
\* the same refreshAccessToken and are left to NextAuth.
AuthStep ==
  /\ RenderIdle
  /\ \/ Mount
     \/ ExchangeSucceeds
     \/ ExchangeFails
     \/ ExchangeThrows
     \/ login
     \/ DialogAuthSuccess
     \/ logout

\* No embed instance yet.
EmbedStart ==
  /\ embedRef = 0
  /\ embedReady = FALSE
  /\ accessTokenRef = NULL
  /\ lastSent = << >>
  /\ embedLog = [early |-> {}, pushed |-> NULL, mountToken |-> NULL]

\* ========================================================================
\* PART 4 - lib/excel-tools.ts : chunk and the write_range handler
\* ========================================================================

\* The batch size write_range passes to chunk.
ChunkSize == 10

\* Array.prototype.slice(from, to) with 0 <= from: the elements at 0-based
\* positions from .. to-1, cut off at the end of the array.
slice(arr, from, to) ==
  SubSeq(arr, from + 1, IF to <= Len(arr) THEN to ELSE Len(arr))

\* The for loop of chunk from position i on: for (; i < arr.length; i += size)
\* chunks.push(arr.slice(i, i + size)).
RECURSIVE chunkFrom(_, _, _)
chunkFrom(arr, size, i) ==
  IF i < Len(arr)
    THEN << slice(arr, i, i + size) >> \o chunkFrom(arr, size, i + size)
    ELSE << >>

\* Variant: the slice takes one element too many, arr.slice(i, i + size + 1).
RECURSIVE chunkFromInclusive(_, _, _)
chunkFromInclusive(arr, size, i) ==
  IF i < Len(arr)
    THEN << slice(arr, i, i + size + 1) >>
           \o chunkFromInclusive(arr, size, i + size)
    ELSE << >>

chunkInclusive(arr, size) == chunkFromInclusive(arr, size, 0)

\* chunk(arr, size).
chunk(arr, size) == chunkFrom(arr, size, 0)

\* The values arrays of the model: n rows of w cells, the cell of row r and
\* column c holding <<r, c>>, so that every row and every cell is told apart.
ValuesArrays ==
  { [r \in 1..n |-> [c \in 1..w |-> <<r, c>>]] : n \in 0..MaxRows,
                                                  w \in 1..MaxCols }

\* args.address as the sequence of its pieces, ":" being the separator
\* character.
Addresses == { <<"A1">>, <<"B3", ":", "D9">> }

\* String.prototype.split(":"): the pieces between the ":" characters.
RECURSIVE split(_)
split(s) ==
  IF s = << >> THEN << << >> >>
  ELSE IF Head(s) = ":" THEN << << >> >> \o split(Tail(s))
  ELSE LET rest == split(Tail(s))
       IN  << << Head(s) >> \o rest[1] >> \o Tail(rest)

\* No result yet.
NoResult == [success |-> FALSE, rowsWritten |-> 0]

\* write_range is not running.
WriteIdle ==
  /\ writePc = "idle"
  /\ values = << >>
  /\ topLeft = << >>
  /\ rowChunks = << >>
  /\ nextChunk = 1
  /\ startRow = 0
  /\ synced = << >>
  /\ writeResult = NoResult

\* The range one loop iteration assigns: sheet.getRange(topLeft)
\* .getCell(startRow, 0).getResizedRange(rowChunk.length - 1,
\* rowChunk[0].length - 1), with range.values = rowChunk.
RangeWrite(rowChunk) ==
  [cell         |-> topLeft,
   row          |-> startRow,
   column       |-> 0,
   deltaRows    |-> Len(rowChunk) - 1,
   deltaColumns |-> Len(rowChunk[1]) - 1,
   values       |-> rowChunk]

\* The write_range handler is called: it chunks the rows, sets startRow to 0
\* and enters Excel.run, where it takes the top-left cell from the address.
WriteRangeCall ==
  /\ writePc = "idle"
  /\ \E v \in ValuesArrays, address \in Addresses :
       /\ values' = v
       /\ rowChunks' = chunk(v, ChunkSize)
       /\ topLeft' = split(address)[1]
  /\ startRow' = 0
  /\ nextChunk' = 1
  /\ writePc' = "loop"
  /\ UNCHANGED <<toolVars, authVars, embedVars, synced, writeResult>>

\* One iteration of the loop whose context.sync() resolves: the batch is on
\* the sheet and startRow advances by the batch's length.
WriteChunk ==
  /\ writePc = "loop"
  /\ nextChunk <= Len(rowChunks)
  /\ LET rowChunk == rowChunks[nextChunk]
     IN  /\ synced' = Append(synced, RangeWrite(rowChunk))
         /\ startRow' = startRow + Len(rowChunk)
  /\ nextChunk' = nextChunk + 1
  /\ UNCHANGED <<toolVars, authVars, embedVars, writePc, values, topLeft,
                 rowChunks, writeResult>>

\* One iteration of the loop whose context.sync() rejects: Excel.run rejects
\* and so does the handler; the batch is not applied.
WriteSyncRejects ==
  /\ writePc = "loop"
  /\ nextChunk <= Len(rowChunks)
  /\ writePc' = "failed"
  /\ UNCHANGED <<toolVars, authVars, embedVars, values, topLeft, rowChunks,
                 nextChunk, startRow, synced, writeResult>>

\* The loop is over: Excel.run resolves and the handler returns
\* { success: true, rowsWritten: values.length }.
WriteReturns ==
  /\ writePc = "loop"
  /\ nextChunk > Len(rowChunks)
  /\ writeResult' = [success |-> TRUE, rowsWritten |-> Len(values)]
  /\ writePc' = "done"
  /\ UNCHANGED <<toolVars, authVars, embedVars, values, topLeft, rowChunks,
                 nextChunk, startRow, synced>>

\* ========================================================================
\* Specifications
\* ========================================================================

InitTools ==
  /\ inFlightCalls = EmptyMap
  /\ promises = << >>
  /\ calls = << >>

\* The deduplication layer alone.
InitToolsOnly == InitTools /\ AuthStart(NULL) /\ EmbedStart /\ WriteIdle

NextTools ==
  \/ ToolCall
  \/ HandlerSettles

SpecTools == InitToolsOnly /\ [][NextTools]_vars

\* The useAuth hook alone, for every content of localStorage.
InitAuth ==
  /\ InitTools /\ EmbedStart /\ WriteIdle
  /\ \E rt \in RefreshTokens \cup {NULL} : AuthStart(rt)

NextAuth ==
  \/ Mount
  \/ ExchangeSucceeds
  \/ ExchangeFails
  \/ ExchangeThrows
  \/ TimerFires
  \/ EmbedRequestsRefresh
  \/ login
  \/ DialogAuthSuccess
  \/ DialogAuthError
  \/ DialogNoise
  \/ DialogClosed
  \/ logout
  \/ Unmount

SpecAuth == InitAuth /\ [][NextAuth]_vars

\* useAuth where the mount effect runs and every awaited exchange ends (with
\* tokens, with a non-ok response, or by rejecting).
ExchangeEnds == ExchangeSucceeds \/ ExchangeFails \/ ExchangeThrows

SpecAuthLive ==
  InitAuth /\ [][NextAuth]_vars /\ WF_vars(Mount) /\ WF_vars(ExchangeEnds)

\* scheduleRefresh alone.
InitDelay == InitTools /\ AuthStart(NULL) /\ EmbedStart /\ WriteIdle

NextDelay == ScheduleRefreshCall

SpecDelay == InitDelay /\ [][NextDelay]_vars

\* useAuth together with useChatEmbed.
InitEmbed ==
  /\ InitTools /\ EmbedStart /\ WriteIdle
  /\ \E rt \in RefreshTokens \cup {NULL} : AuthStart(rt)

NextEmbed ==
  \/ EmbedMount
  \/ EmbedReady
  \/ TokenEffect
  \/ EmbedUnmount
  \/ EmbedTokenRefreshRequired
  \/ AuthStep

SpecEmbed == InitEmbed /\ [][NextEmbed]_vars

\* One call of the write_range handler, for every values array and address of
\* the model.  Each step follows an await that settles (the call itself, then
\* one context.sync() per step), so a step that is possible is taken.
InitWrite == InitTools /\ AuthStart(NULL) /\ EmbedStart /\ WriteIdle

NextWrite ==
  \/ WriteRangeCall
  \/ WriteChunk
  \/ WriteSyncRejects
  \/ WriteReturns

SpecWrite == InitWrite /\ [][NextWrite]_vars /\ WF_vars(NextWrite)

\* ========================================================================
\* Properties
\* ========================================================================

CallIds == 1..Len(calls)

PromiseIds == 1..Len(promises)

\* The call that started execution p.
StarterOf(p) == CHOOSE d \in CallIds : calls[d].fresh /\ calls[d].promise = p

\* C1: deliveries of one (toolName, JSON args) key that arrive while an
\* execution for that key is pending, from whichever listener, start no
\* further execution: at most one handler execution per key is in progress.
C1_OneExecutionPerKey ==
  /\ \A p, q \in PromiseIds :
       ( /\ promises[p].status = "pending"
         /\ promises[q].status = "pending"
         /\ promises[p].key = promises[q].key ) => p = q
  /\ \A c \in CallIds : calls[c].racing # 0 => ~calls[c].fresh

\* Two listeners delivered the same call while it was pending; one execution.
C1_Witness ==
  \E c, d \in CallIds :
    /\ c < d
    /\ calls[c].listener # calls[d].listener
    /\ calls[c].fresh
    /\ calls[d].racing = calls[c].promise
    /\ promises[calls[c].promise].status = "pending"
    /\ Cardinality({p \in PromiseIds :
         promises[p].key = promises[calls[c].promise].key}) = 1

\* C2: a caller collapsed onto an in-flight execution gets what the first
\* caller gets: both are pending together, and once the execution settles
\* both hold its result, or both its error; none is left without a response.
C2_CollapsedCallersShareOutcome ==
  \A c \in CallIds :
    calls[c].racing # 0 =>
      LET p == calls[c].racing
          first == StarterOf(p)
      IN /\ calls[c].status = calls[first].status
         /\ calls[c].outcome = calls[first].outcome
         /\ promises[p].status # "pending" =>
              /\ calls[c].status = "responded"
              /\ calls[c].outcome = PromiseOutcome(p)

\* A collapsed caller and the first caller both hold the handler's error.
C2_Witness ==
  \E c \in CallIds :
    /\ calls[c].racing # 0
    /\ calls[c].status = "responded"
    /\ calls[c].outcome.kind = "error"
    /\ calls[StarterOf(calls[c].racing)].outcome = calls[c].outcome

\* C3: a call for a key whose earlier execution has settled is never handed
\* the settled promise; with no execution pending for its key it starts a
\* new one.
C3_SettledKeyExecutesAgain ==
  \A c \in CallIds :
    calls[c].tool \in handlerMap =>
      /\ ~calls[c].joinedSettled
      /\ calls[c].racing = 0 => calls[c].fresh

\* A key was executed, settled and answered, then called and executed again.
C3_Witness ==
  \E c, d \in CallIds :
    /\ c < d
    /\ CallKey(calls[c].tool, calls[c].args) = CallKey(calls[d].tool, calls[d].args)
    /\ calls[c].fresh /\ calls[d].fresh
    /\ calls[c].promise # calls[d].promise
    /\ calls[c].status = "responded"
    /\ promises[calls[d].promise].status = "pending"

\* C4: the table holds a key exactly while an execution for that key has
\* started and not settled, and maps it to that execution; so it is empty
\* whenever no handler is running.
C4_TableIsRunningHandlers ==
  /\ \A k \in DOMAIN inFlightCalls : PendingFor(k) = {inFlightCalls[k]}
  /\ \A p \in PromiseIds :
       promises[p].status = "pending" =>
         MapGet(inFlightCalls, promises[p].key) = p
  /\ (\A p \in PromiseIds : promises[p].status # "pending") =>
       inFlightCalls = EmptyMap

\* A handler failed, another succeeded, and the table is empty again.
C4_Witness ==
  /\ inFlightCalls = EmptyMap
  /\ \E p, q \in PromiseIds :
       promises[p].status = "rejected" /\ promises[q].status = "fulfilled"

\* C5: at most one refresh timer is live, it is the one refreshTimerRef
\* names, and no timer fires after a later scheduleRefresh superseded it.
C5_OneLiveTimer ==
  /\ Cardinality(timers) <= 1
  /\ \A t \in timers : t.id = refreshTimerRef /\ ~t.superseded
  /\ ~timerLog.firedSuperseded

\* scheduleRefresh cancelled a timer that was still live and armed another.
C5_Witness ==
  /\ timerLog.cancelledLive
  /\ Cardinality(timers) = 1
  /\ lastOp.op \in {"renewed", "loginSucceeded"}

\* C6: a timer armed for lifetime L has delay max(L - 30, 10) seconds, which
\* is positive; 10 s for L = 5 and 270 s for L = 300.
C6_DelayIsMaxOfMarginAndFloor ==
  \A t \in timers :
    /\ t.delay = Max(t.life - 30, 10) * 1000
    /\ t.delay > 0
    /\ t.life = 5 => t.delay = 10000
    /\ t.life = 300 => t.delay = 270000

\* A timer armed for a 5 s credential.
C6_Witness == \E t \in timers : t.life = 5 /\ t.delay = 10000

\* C7 as stated: for every positive lifetime the armed delay is strictly
\* less than the lifetime.
C7_FiresBeforeExpiry ==
  \A t \in timers : t.life > 0 => t.delay < t.life * 1000

\* C7 amended: the delay is less than the lifetime exactly for lifetimes
\* above 10 s; for a positive lifetime of at most 10 s the delay is the 10 s
\* floor, which is not before expiry.
C7_FiresBeforeExpiryAbove10 ==
  \A t \in timers :
    /\ t.life > 10 => t.delay < t.life * 1000
    /\ (t.life > 0 /\ t.life <= 10) =>
         (t.delay = 10000 /\ t.delay >= t.life * 1000)

\* Timers armed for a lifetime just above the floor.
C7_Witness == \E t \in timers : t.life = 11 /\ t.delay = 10000

\* C8: while the hook is mounted, the initial restore ending in a renewal
\* failure (refreshAccessToken returning null) in state Restoring sets the
\* state to Unauthenticated; a timer-fired or embed-requested renewal ending
\* so in state Authenticated leaves the state and the access token alone.
RenewalFailure(origins) ==
  /\ lastOp'.op \in {"renewFailed", "renewNoToken"}
  /\ lastOp'.origin \in origins
  /\ phase' = "mounted"

C9_OnlyLogoutEjects ==
  [][ (state = "authenticated" /\ state' = "unauthenticated")
        => lastOp'.op = "logout" ]_vars

\* C10 as stated: the state goes from Unauthenticated to Authenticated only
\* by a well-formed AUTH_SUCCESS of the login dialog.
C10_OnlyLoginAuthenticates ==
  [][ (state = "unauthenticated" /\ state' = "authenticated")
        => lastOp'.op = "loginSucceeded" ]_vars

C12_NoTimerAfterTeardown ==
  lastOp.afterTeardown => (timers = {} /\ lastOp.origin # "timer")

\* C13: a renewal exchange that succeeds with (A, optional R, optional L)
\* leaves the persisted token R if present and else as it was, exactly one
\* live timer, armed for max(L - 30, 10) s with L = 300 when absent, and,
\* in a mounted hook, access token A and state Authenticated.
C13_RenewalSuccessEffects ==
  [][ lastOp'.op = "renewed" =>
        LET r == lastOp'.resp
            L == IF r.ex.present THEN r.ex.value ELSE 300
        IN /\ storedRT' = (IF r.rt # NULL THEN r.rt ELSE storedRT)
           /\ \E t \in timers' :
                timers' = {t} /\ t.delay = Max(L - 30, 10) * 1000
           /\ phase' = "mounted" =>
                (accessToken' = r.at /\ state' = "authenticated") ]_vars

\* rt-1 exchanged for (at-1, rt-2, 300): Authenticated, rt-2 persisted, one
\* timer of 270 s.
C13_Witness ==
  /\ lastOp.op = "renewed"
  /\ lastOp.resp = [ sent |-> "rt-1", at |-> "at-1", rt |-> "rt-2",
                     ex |-> [present |-> TRUE, value |-> 300] ]
  /\ state = "authenticated"
  /\ accessToken = "at-1"
  /\ storedRT = "rt-2"
  /\ \E t \in timers : timers = {t} /\ t.delay = 270000

\* C14 as stated: an exchange that ends without tokens, by a non-success
\* status or by a transport failure, makes refreshAccessToken clear the
\* persisted token and return null; in the initial restore the state becomes
\* Unauthenticated.
C14_UniformRenewalFailure ==
  [][ lastOp'.op \in {"renewFailed", "renewThrew"} =>
        /\ lastOp'.op = "renewFailed"
        /\ storedRT' = NULL
        /\ ( /\ lastOp'.origin = "mount"
             /\ state = "restoring"
             /\ phase' = "mounted" ) => state' = "unauthenticated" ]_vars

\* C15 as stated: no SET_AUTH or REGISTER_TOOLS is posted to an embed
\* instance before the instance has observed READY.
C15_NoSendBeforeReady == embedLog.early = {}

\* C16: on READY the hook posts REGISTER_TOOLS with every tool schema and
\* then, if there is an access token at that moment, one SET_AUTH with that
\* token; without a token it posts REGISTER_TOOLS alone.
C16_OnReadyRegistersThenAuth ==
  lastOp.op = "embedReady" =>
    lastSent = IF accessToken # NULL
               THEN <<RegisterToolsMsg(handlerMap), SetAuthMsg(accessToken)>>
               ELSE <<RegisterToolsMsg(handlerMap)>>

\* READY observed by an instance created without a token, after the token
\* became at-2: REGISTER_TOOLS, then SET_AUTH(at-2).
C16_Witness ==
  /\ lastOp.op = "embedReady"
  /\ embedLog.mountToken = NULL
  /\ accessToken = "at-2"
  /\ Len(lastSent) = 2
  /\ lastSent[1].type = "REGISTER_TOOLS"
  /\ lastSent[2] = SetAuthMsg("at-2")

\* C17: after READY the render that follows a change of the access token to
\* a non-null value posts exactly one SET_AUTH, carrying the new value; and
\* whenever no render is pending the last token pushed to a ready instance
\* is the current access token, if there is one.
C17_TokenChangePushedOnce ==
  /\ (lastOp.op = "tokenEffect" /\ embedReady /\ accessToken # NULL)
       => lastSent = <<SetAuthMsg(accessToken)>>
  /\ (embedRef # 0 /\ embedReady /\ RenderIdle /\ accessToken # NULL)
       => embedLog.pushed = accessToken

\* After READY pushed at-1, a login changed the token to at-2 and the token
\* effect pushed at-2.
C17_Witness ==
  /\ lastOp.op = "tokenEffect"
  /\ lastOp.origin = "dialog"
  /\ embedReady
  /\ embedLog.mountToken = "at-1"
  /\ accessToken = "at-2"
  /\ lastSent = <<SetAuthMsg("at-2")>>
  /\ embedLog.pushed = "at-2"

\* C18: a renewal asked for by TOKEN_REFRESH_REQUIRED that succeeds leaves
\* exactly one armed timer and the new access token, which the next step
\* pushes to a ready instance by one SET_AUTH (or which that instance has
\* already, when the value is the one it had); one that fails changes
\* neither state nor access token, posts nothing and leaves no render
\* pending.
C18_EmbedRequestedRenewal ==
  [][ /\ (lastOp'.op = "renewed" /\ lastOp'.origin = "embed") =>
           /\ \E t \in timers' : timers' = {t}
           /\ accessToken' = lastOp'.resp.at
           /\ (embedRef' # 0 /\ embedReady' /\ accessToken' = accessTokenRef')
                => embedLog'.pushed = accessToken'
      /\ ( /\ lastOp.op = "renewed" /\ lastOp.origin = "embed"
           /\ embedRef # 0 /\ embedReady /\ accessToken # accessTokenRef ) =>
           /\ lastSent' = <<SetAuthMsg(accessToken)>>
           /\ embedLog'.pushed = accessToken
      /\ ( /\ lastOp'.op \in {"renewFailed", "renewNoToken", "renewThrew"}
           /\ lastOp'.origin = "embed" ) =>
           /\ state' = state
           /\ accessToken' = accessToken
           /\ lastSent' = lastSent
           /\ embedLog' = embedLog
           /\ RenderIdle' ]_vars

\* The embed asked for a renewal in an Authenticated session with at-1; the
\* exchange returned at-2, the timer was re-armed and at-2 was pushed.
C18_Witness ==
  /\ lastOp.op = "tokenEffect"
  /\ lastOp.origin = "embed"
  /\ embedReady
  /\ state = "authenticated"
  /\ accessToken = "at-2"
  /\ lastSent = <<SetAuthMsg("at-2")>>
  /\ embedLog.pushed = "at-2"
  /\ timers # {}

\* C19: a call for a tool without a handler fails with an error naming the
\* tool; it starts no execution, leaves the in-flight table as it was and
\* leaves every other call untouched.
C19_UnknownToolFailsFast ==
  [][ ( /\ Len(calls') = Len(calls) + 1
        /\ calls'[Len(calls')].tool \notin handlerMap ) =>
        LET c == calls'[Len(calls')]
        IN /\ c.status = "responded"
           /\ c.outcome = [kind |-> "unknownTool", value |-> c.tool]
           /\ c.promise = 0
           /\ ~c.fresh
           /\ promises' = promises
           /\ inFlightCalls' = inFlightCalls
           /\ \A d \in CallIds : calls'[d] = calls[d] ]_vars

\* An unknown tool was called while a call for a registered tool was in
\* flight, and that call is still in flight.
C19_Witness ==
  \E c, d \in CallIds :
    /\ d < c
    /\ calls[c].tool \notin handlerMap
    /\ calls[c].outcome = [kind |-> "unknownTool", value |-> calls[c].tool]
    /\ calls[d].status = "pending"
    /\ MapGet(inFlightCalls, CallKey(calls[d].tool, calls[d].args))
         = calls[d].promise

\* C20: when a handler execution fails, every caller that was given its
\* promise has received that error, the key's table entry is no longer that
\* execution, and executions are started by calls only, one per starting
\* call (nothing is run again on failure).
C20_HandlerErrorDelivered ==
  /\ \A p \in PromiseIds :
       promises[p].status = "rejected" =>
         /\ \A c \in CallIds :
              calls[c].promise = p =>
                /\ calls[c].status = "responded"
                /\ calls[c].outcome =
                     [kind |-> "error", value |-> promises[p].value]
         /\ MapGet(inFlightCalls, promises[p].key) # p
  /\ \A p \in PromiseIds :
       Cardinality({c \in CallIds : calls[c].fresh /\ calls[c].promise = p})
         = 1
  /\ \A c \in CallIds : calls[c].promise \in PromiseIds \cup {0}

\* One failed execution, two callers holding the error, nothing left in the
\* table and no second execution.
C20_Witness ==
  /\ Len(promises) = 1
  /\ promises[1].status = "rejected"
  /\ \E c, d \in CallIds :
       /\ c # d
       /\ calls[c].promise = 1 /\ calls[d].promise = 1
       /\ calls[c].outcome = [kind |-> "error", value |-> "e1"]
       /\ calls[d].outcome = [kind |-> "error", value |-> "e1"]
  /\ inFlightCalls = EmptyMap

\* C21: a well-formed AUTH_SUCCESS (A, optional R, optional L) closes the
\* dialog and clears its handle, persists R if present, leaves exactly one
\* live timer armed for max(L - 30, 10) s (L = 300 when absent) and, in a
\* mounted hook, access token A and state Authenticated.
C21_LoginSuccessEffects ==
  [][ lastOp'.op = "loginSucceeded" =>
        LET r == lastOp'.resp
            L == IF r.ex.present THEN r.ex.value ELSE 300
        IN /\ ~dialogOpen'
           /\ dialogRef' = 0
           /\ storedRT' = (IF r.rt # NULL THEN r.rt ELSE storedRT)
           /\ \E t \in timers' :
                timers' = {t} /\ t.delay = Max(L - 30, 10) * 1000
           /\ phase' = "mounted" =>
                (accessToken' = r.at /\ state' = "authenticated") ]_vars

\* Login with (at-2, rt-1, 5) from an empty store: Authenticated, rt-1
\* persisted, one timer of 10 s, no dialog.
C21_Witness ==
  /\ lastOp.op = "loginSucceeded"
  /\ lastOp.resp = [ sent |-> NULL, at |-> "at-2", rt |-> "rt-1",
                     ex |-> [present |-> TRUE, value |-> 5] ]
  /\ state = "authenticated"
  /\ accessToken = "at-2"
  /\ storedRT = "rt-1"
  /\ \E t \in timers : timers = {t} /\ t.delay = 10000
  /\ ~dialogOpen
  /\ dialogRef = 0

\* C22: an AUTH_ERROR, the user closing the dialog, and every ignored
\* message (dialog error event, text that is not JSON, unknown type,
\* AUTH_SUCCESS without accessToken) leave state, access token, persisted
\* token and refresh timer as they were.
C22_OtherDialogEventsChangeNothing ==
  [][ lastOp'.op \in {"loginError", "loginDismissed", "loginNoise"} =>
        /\ state' = state
        /\ accessToken' = accessToken
        /\ storedRT' = storedRT
        /\ timers' = timers
        /\ refreshTimerRef' = refreshTimerRef ]_vars

\* AUTH_ERROR from a dialog opened in an Authenticated session: the session,
\* its stored token and its timer are still there.
C22_Witness ==
  /\ lastOp.op = "loginError"
  /\ phase = "mounted"
  /\ state = "authenticated"
  /\ accessToken # NULL
  /\ storedRT # NULL
  /\ timers # {}

\* C23 as stated: a message from a dialog that was opened before the last
\* logout() or unmount changes neither state, access token, persisted token
\* nor timer.
C23_StaleDialogIsCancelled ==
  [][ ( /\ lastOp.staleDialog
        /\ lastOp'.op \in {"loginSucceeded", "loginError", "loginNoise"} ) =>
        /\ state' = state
        /\ accessToken' = accessToken
        /\ storedRT' = storedRT
        /\ timers' = timers ]_vars

\* The steps in which refreshAccessToken reads the persisted token.
ReadsStore(op) == op \in {"renewNoToken", "renewStarted"}

\* C24 as stated: the persisted token is read only once, by the initial
\* restore.
C24_ReadOnceAtRestore ==
  [][ ReadsStore(lastOp'.op) => lastOp'.origin = "mount" ]_vars

\* C24, amended: every renewal attempt (restore, timer, embed) reads the
\* persisted token once, when it starts, exchanges the value it read and
\* does not write it; every other step leaves the slot alone, clears it or
\* writes the whole value it was given.
C24_ReadAtEachRenewal ==
  [][ /\ lastOp'.op = "renewStarted" =>
           /\ storedRT # NULL
           /\ storedRT' = storedRT
           /\ exchanges' =
                [exchanges EXCEPT ![<<storedRT, lastOp'.origin>>] = @ + 1]
      /\ lastOp'.op = "renewNoToken" =>
           /\ storedRT = NULL
           /\ storedRT' = storedRT
           /\ exchanges' = exchanges
      /\ ~ReadsStore(lastOp'.op) =>
           \/ storedRT' = storedRT
           \/ storedRT' = NULL
           \/ storedRT' = lastOp'.resp.rt ]_vars

\* The timer's renewal read the persisted token and is exchanging it while
\* the restore's exchange of the other token is still awaited.
C24_Witness ==
  /\ lastOp.op = "renewStarted"
  /\ lastOp.origin = "timer"
  /\ storedRT = "rt-2"
  /\ exchanges[<<"rt-2", "timer">>] = 1
  /\ exchanges[<<"rt-1", "mount">>] = 1

\* C25: a renewal call made with a persisted token starts an exchange of
\* its own whatever is already in flight; and when one exchange succeeds
\* right after another, access token, persisted token and timer are those
\* of the later one, with exactly one timer live.
C25_OverlappingRenewals ==
  [][ /\ lastOp'.op = "renewStarted" => InFlightCount' = InFlightCount + 1
      /\ (lastOp.op = "renewed" /\ lastOp'.op = "renewed") =>
           LET r == lastOp'.resp
               L == IF r.ex.present THEN r.ex.value ELSE 300
           IN /\ storedRT' = (IF r.rt # NULL THEN r.rt ELSE storedRT)
              /\ \E t \in timers' :
                   /\ timers' = {t}
                   /\ t.delay = Max(L - 30, 10) * 1000
                   /\ t.id # refreshTimerRef
              /\ phase' = "mounted" => accessToken' = r.at ]_vars

\* The timer's exchange and one the embed asked for were in flight
\* together: the timer's has succeeded with at-2 and armed the one live
\* timer while the embed's is still awaited.
C25_Witness ==
  /\ lastOp.op = "renewed"
  /\ lastOp.origin = "timer"
  /\ lastOp.resp.at = "at-2"
  /\ phase = "mounted"
  /\ accessToken = "at-2"
  /\ \E rt \in RefreshTokens : exchanges[<<rt, "embed">>] = 1
  /\ InFlightCount = 1
  /\ Cardinality(timers) = 1

\* C26 as stated: while the hook is mounted and Authenticated, a refresh
\* timer is live or a renewal exchange is in flight.
C26_NeverWithoutRenewal ==
  (state = "authenticated" /\ phase = "mounted")
    => (timers # {} \/ InFlightCount > 0)

\* C28 as stated: the state is Authenticated exactly when the access token
\* is non-null.
C28_StateAgreesWithToken ==
  (state = "authenticated") <=> (accessToken # NULL)

\* C29: refreshAccessToken called with nothing persisted starts no
\* exchange, returns null, arms no timer and leaves access token and
\* persisted slot alone; as the restore on mount it takes the state from
\* Restoring to Unauthenticated, with no timer.
C29_NoTokenNoExchange ==
  [][ lastOp'.op = "renewNoToken" =>
        /\ storedRT = NULL
        /\ storedRT' = NULL
        /\ exchanges' = exchanges
        /\ accessToken' = accessToken
        /\ timers' \subseteq timers
        /\ refreshTimerRef' = refreshTimerRef
        /\ nextTimerId' = nextTimerId
        /\ lastOp'.origin = "mount" =>
             /\ state = "restoring"
             /\ state' = "unauthenticated"
             /\ timers' = {} ]_vars

\* Mounted with an empty store: Unauthenticated, no exchange, no timer.
C29_Witness ==
  /\ lastOp.op = "renewNoToken"
  /\ lastOp.origin = "mount"
  /\ state = "unauthenticated"
  /\ accessToken = NULL
  /\ storedRT = NULL
  /\ InFlightCount = 0
  /\ timers = {}
  /\ nextTimerId = 1

\* C27 as stated: when every exchange ends, a mounted hook leaves Restoring
\* for Authenticated or Unauthenticated whatever the outcome of the restore,
\* and no step takes the state back to Restoring.
C27_RestoringIsLeft ==
  /\ <>(state # "restoring" \/ phase = "unmounted")
  /\ [][state # "restoring" => state' # "restoring"]_vars

\* C30: calls that differ in tool name or in args (the same fields in
\* another order included) never share an execution: each holds a promise
\* of its own key, started by a call of that key, and what it receives is
\* the outcome of that execution.
C30_DistinctKeysAreIndependent ==
  /\ \A c, d \in CallIds :
       ( /\ calls[c].promise # 0 /\ calls[d].promise # 0
         /\ (calls[c].tool # calls[d].tool \/ calls[c].args # calls[d].args) )
         => calls[c].promise # calls[d].promise
  /\ \A c \in CallIds :
       calls[c].promise # 0 =>
         /\ calls[StarterOf(calls[c].promise)].tool = calls[c].tool
         /\ calls[StarterOf(calls[c].promise)].args = calls[c].args
         /\ calls[c].status = "responded"
              => calls[c].outcome = PromiseOutcome(calls[c].promise)

\* One tool called with the same fields in two orders: two executions; the
\* later one has settled with r2 and answered its caller while the earlier
\* one is still running.
C30_Witness ==
  \E c, d \in CallIds :
    /\ c < d
    /\ calls[c].tool = calls[d].tool
    /\ calls[c].args # calls[d].args
    /\ calls[c].fresh /\ calls[d].fresh
    /\ promises[calls[c].promise].status = "pending"
    /\ calls[c].status = "pending"
    /\ calls[d].outcome = [kind |-> "result", value |-> "r2"]

\* The batches put back end to end.
RECURSIVE Concatenation(_)
Concatenation(chunks) ==
  IF chunks = << >> THEN << >>
  ELSE Head(chunks) \o Concatenation(Tail(chunks))

\* The applied writes that cover the row at offset r below the top-left cell.
WritesCovering(r) ==
  { j \in 1..Len(synced) :
      synced[j].row <= r /\ r <= synced[j].row + synced[j].deltaRows }

\* The row offsets a write of the model can reach.
RowOffsets == 0..(MaxRows + ChunkSize)

\* The batches of chunk(values, 10): at most 10 rows each, all but the last
\* exactly 10, none empty, and end to end they are the input.
C31_BatchesPartitionInput ==
  /\ \A k \in 1..Len(rowChunks) :
       /\ Len(rowChunks[k]) \in 1..ChunkSize
       /\ k < Len(rowChunks) => Len(rowChunks[k]) = ChunkSize
  /\ Concatenation(rowChunks) = values
  /\ values = << >> => rowChunks = << >>

\* Batch k (counted from 0) is written whole at row offset 10*k and column
\* offset 0 from the top-left cell of the address, and no row offset is
\* covered by two writes.
C31_BatchesWrittenInPlace ==
  /\ \A j \in 1..Len(synced) :
       /\ synced[j].cell = topLeft
       /\ synced[j].row = ChunkSize * (j - 1)
       /\ synced[j].column = 0
       /\ synced[j].values = rowChunks[j]
       /\ synced[j].deltaRows = Len(rowChunks[j]) - 1
       /\ \A i \in 1..Len(rowChunks[j]) :
            synced[j].deltaColumns = Len(rowChunks[j][i]) - 1
  /\ \A r \in RowOffsets : Cardinality(WritesCovering(r)) <= 1
  /\ topLeft \in { << >>, <<"A1">>, <<"B3">> }

\* Once the handler has returned: row offset r holds input row r for every
\* r below n, written by exactly one write, nothing is written at or
\* beyond offset n, and the result is { success: true, rowsWritten: n }.
C31_AllRowsWrittenOnce ==
  writePc = "done" =>
    /\ Len(synced) = Len(rowChunks)
    /\ \A r \in RowOffsets :
         IF r < Len(values)
           THEN /\ Cardinality(WritesCovering(r)) = 1
                /\ \A j \in WritesCovering(r) :
                     synced[j].values[r - synced[j].row + 1] = values[r + 1]
           ELSE WritesCovering(r) = {}
    /\ writeResult = [success |-> TRUE, rowsWritten |-> Len(values)]
    /\ values = << >> => synced = << >>

\* C31: for every values array of n rows, write_range splits the rows with
\* chunk(values, 10) into consecutive batches of at most 10 rows, all but
\* the last exactly 10, whose concatenation is the input; it writes batch k
\* at row offset 10*k from the top-left cell, so that every input row is
\* written exactly once with no gap and no overlap; it ends (by returning,
\* or by rejecting when a context.sync() rejects); and when it returns it
\* reports rowsWritten = n, having written nothing when n = 0.
C31_ChunkedWrite ==
  /\ [](C31_BatchesPartitionInput
        /\ C31_BatchesWrittenInPlace
        /\ C31_AllRowsWrittenOnce)
  /\ <>(writePc \in {"done", "failed"})

\* write_range has returned for 23 rows addressed "B3:D9": three writes at
\* row offsets 0, 10 and 20 from B3, the last of three rows, and
\* rowsWritten = 23.
C31_Witness ==
  /\ writePc = "done"
  /\ Len(values) = 2 * ChunkSize + 3
  /\ topLeft = <<"B3">>
  /\ Len(synced) = 3
  /\ synced[1].row = 0 /\ synced[2].row = ChunkSize
  /\ synced[3].row = 2 * ChunkSize
  /\ Len(synced[3].values) = 3
  /\ writeResult.rowsWritten = 2 * ChunkSize + 3

====
